---- MODULE Spec2Model ----
(***************************************************************************)
(* A model of paddle::memory::detail::BuddyAllocator                       *)
(* (paddle/fluid/memory/detail/buddy_allocator.cc).                        *)
(*                                                                         *)
(* Sizes and addresses are byte counts.  size_t arithmetic is kept modulo  *)
(* Modulus.  A chunk is named by its base address; its descriptor lives in *)
(* cache_ (the MetadataCache).  MemoryBlock and the SystemAllocator are    *)
(* not part of buddy_allocator.cc; they are modelled from their            *)
(* specification.                                                          *)
(***************************************************************************)
EXTENDS Integers, Sequences, FiniteSets, TLC

\* ----------------------------------------------------------------- sizes

\* sizeof(MemoryBlock::Desc)
DescSize == 2
\* min_chunk_size_ and max_chunk_size_, fixed by the constructor
MinChunkSize == 4
MaxChunkSize == 16
\* size_t is SizeBits wide
SizeBits == 8
Modulus == 2 ^ SizeBits

\* ---------------------------------------------------------------- bounds

\* regions the System Allocator can have handed out at one time
NumSlots == 2
\* calls of Alloc and Free in one run
MaxOps == 5
\* the sizes callers ask for
Requests == {0, 10, 17}

Threads == {1, 2}
NoThread == 0
\* the index values the System Allocator writes into *index
Indices == {0, 1}

\* ------------------------------------------------------------- addresses

\* nullptr
Null == 0
\* regions are laid out Stride apart; a slot holds the largest request
Stride == 2 * MaxChunkSize
Slots == 1 .. NumSlots
Base(s) == s * Stride
SlotOf(a) == a \div Stride
\* every address a chunk can start at
Addrs == {Base(s) + k * MinChunkSize : s \in Slots, k \in 0 .. (Stride \div MinChunkSize) - 1}

\* MemoryBlock::data() and MemoryBlock::metadata()
Data(block) == block + DescSize
Metadata(p) == p - DescSize

\* --------------------------------------------------------- descriptors

FREE_CHUNK == "FREE_CHUNK"
ARENA_CHUNK == "ARENA_CHUNK"
HUGE_CHUNK == "HUGE_CHUNK"
\* a cache entry that was invalidated, or never written
NoDesc == [type |-> "INVALID_CHUNK", index |-> 0, size |-> 0, total_size |-> 0,
           left_buddy |-> Null, right_buddy |-> Null]

\* MemoryBlock::Desc as MemoryBlock::init writes it
Desc(type, index, total_size, left, right) ==
  [type |-> type, index |-> index, size |-> (total_size - DescSize) % Modulus,
   total_size |-> total_size, left_buddy |-> left, right_buddy |-> right]

VARIABLES
  pool_,        \* the PoolSet: a set of <<index, total_size, address>>
  cache_,       \* the MetadataCache: address -> descriptor
  total_used_,
  total_free_,
  mutex_,       \* the thread that holds mutex_, or NoThread
  sys,          \* the System Allocator: slot -> what it handed out
  sysStray,     \* System Allocator Free calls on addresses that are no region base
  dtor,         \* "alive", "running" (in ~BuddyAllocator) or "dead"
  pc,           \* thread -> position in Alloc or Free
  size,         \* thread -> the local variable size of Alloc
  it,           \* thread -> the local iterator it of Alloc
  block,        \* thread -> the local variable block of Free
  ret,          \* thread -> the pointer Alloc returns
  calls,        \* thread -> the System Allocator Alloc calls of the current call
  snap,         \* thread -> the allocator's state when the thread took mutex_
  live,         \* <<pointer, owner>>: returned by Alloc, not yet given to Free
  sysRefused,   \* whether the System Allocator has returned nullptr so far
  nops,         \* calls started so far
  unaligned,    \* thread -> the argument unaligned_size of Alloc
  use_gpu,      \* what system_allocator_->UseGpu() returns
  FLAGS_reallocate_gpu_memory_in_mb,  \* the flag, in the model's size unit
  realloc_size_,
  refill        \* the sizes the last RefillPool worked out on device memory

vars == <<pool_, cache_, total_used_, total_free_, mutex_, sys, sysStray, dtor,
          pc, size, it, block, ret, calls, snap, live, sysRefused, nops,
          unaligned, use_gpu, FLAGS_reallocate_gpu_memory_in_mb, realloc_size_, refill>>

alloc_vars == <<pool_, cache_, total_used_, total_free_>>

\* ------------------------------------------------- size_t arithmetic

Add(a, b) == (a + b) % Modulus
Sub(a, b) == (a - b) % Modulus

\* mutant: a size that is aligned already is moved up by one alignment
align_AlwaysAdds(sz, alignment) == Add(sz, alignment - (sz % alignment))

\* align(size, alignment)
align(sz, alignment) ==
  LET remaining == sz % alignment
  IN  IF remaining = 0 THEN sz ELSE Add(sz, alignment - remaining)

\* the size Alloc computes from unaligned_size
AllocSize(unaligned_size) == align(Add(unaligned_size, DescSize), MinChunkSize)

\* ------------------------------------------------------- the PoolSet

\* IndexSizeAddress, a std::tuple<size_t, size_t, void*>
IndexSizeAddress(index, total_size, addr) == <<index, total_size, addr>>

\* std::tuple's operator<
TupleLess(a, b) ==
  \/ a[1] < b[1]
  \/ a[1] = b[1] /\ a[2] < b[2]
  \/ a[1] = b[1] /\ a[2] = b[2] /\ a[3] < b[3]

\* pool_.end()
PoolEnd == <<-1, -1, -1>>

\* the least element of a non-empty set of tuples
Least(S) == CHOOSE e \in S : \A f \in S : f = e \/ TupleLess(e, f)

\* pool_.begin()
PoolBegin(pool) == IF pool = {} THEN PoolEnd ELSE Least(pool)

\* pool_.lower_bound(key): the first entry that is not less than key
LowerBound(pool, key) ==
  LET S == {e \in pool : ~TupleLess(e, key)}
  IN  IF S = {} THEN PoolEnd ELSE Least(S)

\* mutant: the first entry of a later region is taken without the size test
FindFrom_FirstOfLaterRegion(pool, index, sz) ==
  LowerBound(pool, IndexSizeAddress(index, sz, Null))

\* the while loop of FindExistChunk, entered with the local index
RECURSIVE FindFrom(_, _, _)
FindFrom(pool, index, sz) ==
  LET e == LowerBound(pool, IndexSizeAddress(index, sz, Null))
  IN  IF e = PoolEnd THEN e
      ELSE IF e[1] > index
           THEN IF e[2] >= sz THEN e ELSE FindFrom(pool, e[1], sz)
           ELSE e

\* mutant: a retry of the loop does not move index on
FindStep_KeepsIndex(pool, index, sz) ==
  LET e == LowerBound(pool, IndexSizeAddress(index, sz, Null))
  IN  IF e = PoolEnd THEN [done |-> TRUE, it |-> e, index |-> index]
      ELSE IF e[1] > index /\ e[2] < sz
           THEN [done |-> FALSE, it |-> e, index |-> index]
           ELSE [done |-> TRUE, it |-> e, index |-> index]

\* one turn of the while loop of FindExistChunk: whether it returns, the
\* iterator it holds, and index after the turn
FindStep(pool, index, sz) ==
  LET e == LowerBound(pool, IndexSizeAddress(index, sz, Null))
  IN  IF e = PoolEnd THEN [done |-> TRUE, it |-> e, index |-> index]
      ELSE IF e[1] > index /\ e[2] < sz
           THEN [done |-> FALSE, it |-> e, index |-> e[1]]
           ELSE [done |-> TRUE, it |-> e, index |-> index]

\* the turns of the while loop, at most fuel of them: whether the loop
\* returned, what it returned, and index at the start of every turn
RECURSIVE FindTurns(_, _, _, _)
FindTurns(pool, index, sz, fuel) ==
  IF fuel = 0 THEN [done |-> FALSE, it |-> PoolEnd, indices |-> <<>>]
  ELSE LET r == FindStep(pool, index, sz)
       IN  IF r.done THEN [done |-> TRUE, it |-> r.it, indices |-> <<index>>]
           ELSE LET rest == FindTurns(pool, r.index, sz, fuel - 1)
                IN  [done |-> rest.done, it |-> rest.it,
                     indices |-> <<index>> \o rest.indices]

\* mutant: an entry of a higher index than the one searched counts as a miss
FindExistChunk_SameIndexOnly(pool, sz) ==
  LET e == LowerBound(pool, IndexSizeAddress(0, sz, Null))
  IN  IF e = PoolEnd \/ e[1] > 0 THEN PoolEnd ELSE e

FindExistChunk(pool, sz) == FindFrom(pool, 0, sz)

\* ------------------------------------------------------- MemoryBlock

\* MetadataCache::invalidate
Invalidate(cache, b) == [cache EXCEPT ![b] = NoDesc]

\* MemoryBlock::init
InitBlock(cache, b, type, index, total_size, left, right) ==
  [cache EXCEPT ![b] = Desc(type, index, total_size, left, right)]

\* whether MemoryBlock::split carves a residual out of a chunk of total_size
Splits(total_size, sz) == total_size > sz + DescSize + MinChunkSize

\* MemoryBlock::split
Split(cache, b, sz) ==
  LET d == cache[b]
      right_partition == b + sz
      remaining_size == d.total_size - sz
      new_block_right_buddy == d.right_buddy
      c1 == [cache EXCEPT
               ![right_partition] = Desc(FREE_CHUNK, d.index, remaining_size, b,
                                         new_block_right_buddy),
               ![b] = [d EXCEPT !.right_buddy = right_partition,
                                !.size = Sub(sz, DescSize),
                                !.total_size = sz]]
  IN  IF ~Splits(d.total_size, sz) THEN cache
      ELSE IF new_block_right_buddy # Null
           THEN [c1 EXCEPT ![new_block_right_buddy].left_buddy = right_partition]
           ELSE c1

\* MemoryBlock::merge
Merge(cache, b, right_buddy) ==
  LET d == cache[b]
      r == cache[right_buddy]
      c1 == [cache EXCEPT
               ![b] = [d EXCEPT !.right_buddy = r.right_buddy,
                                !.size = Add(d.size, r.total_size),
                                !.total_size = Add(d.total_size, r.total_size)],
               ![right_buddy] = NoDesc]
  IN  IF r.right_buddy # Null
      THEN [c1 EXCEPT ![r.right_buddy].left_buddy = b]
      ELSE c1

\* MemoryBlock::mark_as_free
MarkAsFree(cache, b) == [cache EXCEPT ![b].type = FREE_CHUNK]

\* MemoryBlock::get_right_buddy and get_left_buddy: the neighbour, or Null
RightBuddy(cache, b) == cache[b].right_buddy
LeftBuddy(cache, b) == cache[b].left_buddy

\* -------------------------------------------------- System Allocator

NoRegion == [status |-> "unused", bytes |-> 0, index |-> 0, via |-> "none", rel |-> <<>>]

\* what SystemAllocator::Alloc(&index, bytes) can return: nullptr with index
\* untouched, or a region that is not handed out, with any index
SysOutcomes(s) ==
  {[p |-> Null, index |-> 0]} \cup
  {[p |-> Base(k), index |-> i] : k \in {j \in Slots : s[j].status # "live"}, i \in Indices}

\* the System Allocator after Alloc returned outcome o for bytes
SysAfterAlloc(s, o, bytes, via) ==
  IF o.p = Null THEN s
  ELSE [s EXCEPT ![SlotOf(o.p)] = [status |-> "live", bytes |-> bytes, index |-> o.index,
                                   via |-> via, rel |-> <<>>]]

IsBase(p) == \E k \in Slots : p = Base(k)

\* the System Allocator after Free(p, bytes, index) of a region base
SysAfterFree(s, p, bytes, index) ==
  IF IsBase(p)
  THEN [s EXCEPT ![SlotOf(p)].status = "released",
                 ![SlotOf(p)].rel = Append(@, <<bytes, index>>)]
  ELSE s

\* the Free calls on addresses that are no region base
StrayAfterFree(stray, p, bytes, index) ==
  IF IsBase(p) THEN stray ELSE stray \cup {<<p, bytes, index>>}


\* --------------------------------------------------- BuddyAllocator

\* Used()
Used == total_used_

\* mutant: the huge path is taken only above max_chunk_size_ plus one unit
IsHuge_OneUnitLate(sz) == sz > MaxChunkSize + MinChunkSize

\* Alloc's test for the huge path: size > max_chunk_size_
IsHuge(sz) == sz > MaxChunkSize

\* mutant: SplitToAlloc does not mark the served chunk ARENA
SplitToAllocCache_StaysFree(cache, e, sz) == Split(cache, e[3], sz)

\* the descriptor state SplitToAlloc leaves: the chunk of entry e split, then ARENA
SplitToAllocCache(cache, e, sz) ==
  [Split(cache, e[3], sz) EXCEPT ![e[3]].type = ARENA_CHUNK]

\* mutant: SplitToAlloc without pool_.erase(it)
SplitToAllocPool_NoErase(pool, cache, e, sz) ==
  LET c == SplitToAllocCache(cache, e, sz)
      right_buddy == RightBuddy(c, e[3])
  IN  pool \cup
      (IF right_buddy # Null /\ c[right_buddy].type = FREE_CHUNK
       THEN {IndexSizeAddress(c[right_buddy].index, c[right_buddy].total_size, right_buddy)}
       ELSE {})

\* mutant: SplitToAlloc does not put the residual into the pool
SplitToAllocPool_NoInsert(pool, cache, e, sz) == pool \ {e}

\* mutant: SplitToAlloc erases by the key read from the descriptor after the split
SplitToAllocPool_EraseAfterSplit(pool, cache, e, sz) ==
  LET c == SplitToAllocCache(cache, e, sz)
      right_buddy == RightBuddy(c, e[3])
  IN  (pool \ {IndexSizeAddress(c[e[3]].index, c[e[3]].total_size, e[3])}) \cup
      (IF right_buddy # Null /\ c[right_buddy].type = FREE_CHUNK
       THEN {IndexSizeAddress(c[right_buddy].index, c[right_buddy].total_size, right_buddy)}
       ELSE {})

\* the pool SplitToAlloc leaves: entry e erased, a FREE right buddy inserted
SplitToAllocPool(pool, cache, e, sz) ==
  LET c == SplitToAllocCache(cache, e, sz)
      right_buddy == RightBuddy(c, e[3])
  IN  (pool \ {e}) \cup
      (IF right_buddy # Null /\ c[right_buddy].type = FREE_CHUNK
       THEN {IndexSizeAddress(c[right_buddy].index, c[right_buddy].total_size, right_buddy)}
       ELSE {})

Max(a, b) == IF a >= b THEN a ELSE b

\* platform::GpuInitAllocSize(): the size of the first region on device memory
GpuInitAllocSize == 16

\* the values FLAGS_reallocate_gpu_memory_in_mb is given
GpuFlags == {0, 8}

\* what platform::GpuReallocSize() can return: the flag when it is set, else
\* a share of the device memory that is free at the time of the call
GpuReallocSize ==
  IF FLAGS_reallocate_gpu_memory_in_mb > 0
  THEN {FLAGS_reallocate_gpu_memory_in_mb}
  ELSE {8, 10}

\* RefillPool: (total_used_ + total_free_) == 0
FirstRefill == Add(total_used_, total_free_) = 0

\* mutant: realloc_size_ is worked out once, whatever the flag
ReallocSize_Memoized(fresh) ==
  IF realloc_size_ = 0 THEN fresh ELSE realloc_size_

\* realloc_size_ after a refill that is not the first; fresh is what
\* platform::GpuReallocSize() returns if it is called
ReallocSize(fresh) ==
  IF realloc_size_ = 0 \/ FLAGS_reallocate_gpu_memory_in_mb = 0
  THEN fresh
  ELSE realloc_size_

\* allocate_bytes of RefillPool
AllocateBytes(request_bytes, fresh) ==
  IF ~use_gpu THEN MaxChunkSize
  ELSE IF FirstRefill THEN Max(GpuInitAllocSize, request_bytes)
       ELSE Max(ReallocSize(fresh), request_bytes)

\* mutant: total_free_ grows before the result of the System Allocator is tested
RefillFree_BeforeCheck(free, p, allocate_bytes) == Add(free, allocate_bytes)

\* total_free_ after RefillPool got p from the System Allocator
RefillFree(free, p, allocate_bytes) ==
  IF p = Null THEN free ELSE Add(free, allocate_bytes)

\* the amount Alloc moves from total_free_ to total_used_
Charged(sz) == sz

\* mutant: Free takes the payload size, not total_size, off total_used_
UsedAfterFree_PayloadSize(used, desc) == Sub(used, desc.size)

\* total_used_ and total_free_ after Free marked the chunk of descriptor desc free
UsedAfterFree(used, desc) == Sub(used, desc.total_size)
FreeAfterFree(free, desc) == Add(free, desc.total_size)

\* mutant: Free hands a huge chunk back with its payload size
HugeFreeBytes_PayloadSize(desc) == desc.size

\* the byte count Free passes to the System Allocator for a huge chunk
HugeFreeBytes(desc) == desc.total_size

\* mutant: Free merges with a neighbour whatever its type
MergesWith_AnyNeighbour(cache, b, buddy) == buddy # Null

\* mutant: only buddies of equal size merge (the classical buddy system)
MergesWith_EqualSize(cache, b, buddy) ==
  buddy # Null /\ cache[buddy].type = FREE_CHUNK
               /\ cache[buddy].total_size = cache[b].total_size

\* mutant: the merge with the left buddy is left out
MergesWith_RightOnly(cache, b, buddy) ==
  buddy # Null /\ cache[buddy].type = FREE_CHUNK /\ buddy > b

\* whether Free merges block b with its neighbour buddy
MergesWith(cache, b, buddy) == buddy # Null /\ cache[buddy].type = FREE_CHUNK

\* the state a thread records when it takes mutex_
Snapshot == [pool |-> pool_, cache |-> cache_, used |-> total_used_, free |-> total_free_]
NoSnapshot == [pool |-> {}, cache |-> <<>>, used |-> 0, free |-> 0]

\* the pointers thread t got from Alloc and has not freed
Holds(t) == {l[1] : l \in {m \in live : m[2] = t}}

\* no RefillPool on device memory so far
NoRefill == [first |-> FALSE, fresh |-> 0, request_bytes |-> 0, realloc_size |-> 0,
             allocate_bytes |-> 0]

InitWith(gpu, flag) ==
  /\ use_gpu = gpu
  /\ FLAGS_reallocate_gpu_memory_in_mb = flag
  /\ realloc_size_ = 0
  /\ refill = NoRefill
  /\ unaligned = [t \in Threads |-> 0]
  /\ pool_ = {}
  /\ cache_ = [a \in Addrs |-> NoDesc]
  /\ total_used_ = 0
  /\ total_free_ = 0
  /\ mutex_ = NoThread
  /\ sys = [k \in Slots |-> NoRegion]
  /\ sysStray = {}
  /\ sysRefused = FALSE
  /\ dtor = "alive"
  /\ pc = [t \in Threads |-> "idle"]
  /\ size = [t \in Threads |-> 0]
  /\ it = [t \in Threads |-> PoolEnd]
  /\ block = [t \in Threads |-> Null]
  /\ ret = [t \in Threads |-> Null]
  /\ calls = [t \in Threads |-> <<>>]
  /\ snap = [t \in Threads |-> NoSnapshot]
  /\ live = {}
  /\ nops = 0

\* an allocator of host memory
Init == InitWith(FALSE, 0)

\* an allocator of device memory
GpuInit == \E flag \in GpuFlags : InitWith(TRUE, flag)

\* mutant: Alloc and Free do not wait for the mutex
CanLock_Always(t) == TRUE

\* std::lock_guard<std::mutex> lock(mutex_): blocks until the mutex is free
CanLock(t) == mutex_ = NoThread

\* a caller enters Alloc(unaligned_size); size is computed before the lock
AllocCall(t, unaligned_size) ==
  /\ dtor = "alive"
  /\ pc[t] = "idle"
  /\ nops < MaxOps
  /\ nops' = nops + 1
  /\ size' = [size EXCEPT ![t] = AllocSize(unaligned_size)]
  /\ unaligned' = [unaligned EXCEPT ![t] = unaligned_size]
  /\ pc' = [pc EXCEPT ![t] = "a_lock"]
  /\ UNCHANGED <<alloc_vars, mutex_, sys, sysStray, sysRefused, dtor, it, block, ret, calls,
                 snap, live>>
  /\ UNCHANGED <<use_gpu, FLAGS_reallocate_gpu_memory_in_mb, realloc_size_, refill>>

\* Alloc takes the lock
AllocLock(t) ==
  /\ pc[t] = "a_lock"
  /\ CanLock(t)
  /\ mutex_' = t
  /\ snap' = [snap EXCEPT ![t] = Snapshot]
  /\ pc' = [pc EXCEPT ![t] = "a_locked"]
  /\ UNCHANGED <<alloc_vars, sys, sysStray, sysRefused, dtor, size, it, block, ret, calls,
                 live, nops>>
  /\ UNCHANGED <<unaligned, use_gpu, FLAGS_reallocate_gpu_memory_in_mb, realloc_size_, refill>>

\* Alloc, the huge path: return SystemAlloc(size)
AllocHuge(t) ==
  /\ pc[t] = "a_locked"
  /\ IsHuge(size[t])
  /\ \E o \in SysOutcomes(sys) :
       /\ sys' = SysAfterAlloc(sys, o, size[t], "huge")
       /\ sysRefused' = (sysRefused \/ o.p = Null)
       /\ calls' = [calls EXCEPT ![t] = Append(@, <<size[t], o.p>>)]
       /\ cache_' = IF o.p = Null THEN cache_
                    ELSE InitBlock(cache_, o.p, HUGE_CHUNK, o.index, size[t], Null, Null)
       /\ ret' = [ret EXCEPT ![t] = IF o.p = Null THEN Null ELSE Data(o.p)]
  /\ pc' = [pc EXCEPT ![t] = "a_unlock"]
  /\ UNCHANGED <<pool_, total_used_, total_free_, mutex_, sysStray, dtor, size, it, block,
                 snap, live, nops>>
  /\ UNCHANGED <<unaligned, use_gpu, FLAGS_reallocate_gpu_memory_in_mb, realloc_size_, refill>>

\* Alloc: it = FindExistChunk(size)
AllocFind(t) ==
  /\ pc[t] = "a_locked"
  /\ ~IsHuge(size[t])
  /\ it' = [it EXCEPT ![t] = FindExistChunk(pool_, size[t])]
  /\ pc' = [pc EXCEPT ![t] = IF it'[t] = PoolEnd THEN "a_refill" ELSE "a_count"]
  /\ UNCHANGED <<alloc_vars, mutex_, sys, sysStray, sysRefused, dtor, size, block, ret, calls,
                 snap, live, nops>>
  /\ UNCHANGED <<unaligned, use_gpu, FLAGS_reallocate_gpu_memory_in_mb, realloc_size_, refill>>

\* Alloc: it = RefillPool(size), and the return of nullptr when that fails
AllocRefill(t) ==
  /\ pc[t] = "a_refill"
  /\ \E fresh \in (IF use_gpu /\ ~FirstRefill THEN GpuReallocSize ELSE {0}) :
     LET allocate_bytes == AllocateBytes(size[t], fresh)
     IN  \E o \in SysOutcomes(sys) :
           /\ realloc_size_' = IF use_gpu /\ ~FirstRefill
                                THEN ReallocSize(fresh) ELSE realloc_size_
           /\ refill' = IF use_gpu
                         THEN [first |-> FirstRefill, fresh |-> fresh,
                               request_bytes |-> size[t],
                               realloc_size |-> realloc_size_',
                               allocate_bytes |-> allocate_bytes]
                         ELSE refill
           /\ sys' = SysAfterAlloc(sys, o, allocate_bytes, "refill")
           /\ sysRefused' = (sysRefused \/ o.p = Null)
           /\ calls' = [calls EXCEPT ![t] = Append(@, <<allocate_bytes, o.p>>)]
           /\ total_free_' = RefillFree(total_free_, o.p, allocate_bytes)
           /\ IF o.p = Null
              THEN /\ UNCHANGED <<pool_, cache_>>
                   /\ it' = [it EXCEPT ![t] = PoolEnd]
                   /\ pc' = [pc EXCEPT ![t] = "a_unlock"]
              ELSE /\ cache_' = InitBlock(cache_, o.p, FREE_CHUNK, o.index, allocate_bytes,
                                          Null, Null)
                   /\ pool_' = pool_ \cup {IndexSizeAddress(o.index, allocate_bytes, o.p)}
                   /\ it' = [it EXCEPT ![t] = IndexSizeAddress(o.index, allocate_bytes, o.p)]
                   /\ pc' = [pc EXCEPT ![t] = "a_count"]
  /\ UNCHANGED <<total_used_, mutex_, sysStray, dtor, size, block, ret, snap, live, nops>>
  /\ UNCHANGED <<unaligned, use_gpu, FLAGS_reallocate_gpu_memory_in_mb>>

\* Alloc: total_used_ += size; total_free_ -= size
AllocCount(t) ==
  /\ pc[t] = "a_count"
  /\ total_used_' = Add(total_used_, Charged(size[t]))
  /\ total_free_' = Sub(total_free_, Charged(size[t]))
  /\ pc' = [pc EXCEPT ![t] = "a_split"]
  /\ UNCHANGED <<pool_, cache_, mutex_, sys, sysStray, sysRefused, dtor, size, it, block, ret,
                 calls, snap, live, nops>>
  /\ UNCHANGED <<unaligned, use_gpu, FLAGS_reallocate_gpu_memory_in_mb, realloc_size_, refill>>

\* Alloc: return SplitToAlloc(it, size)->data()
AllocSplit(t) ==
  /\ pc[t] = "a_split"
  /\ cache_' = SplitToAllocCache(cache_, it[t], size[t])
  /\ pool_' = SplitToAllocPool(pool_, cache_, it[t], size[t])
  /\ ret' = [ret EXCEPT ![t] = Data(it[t][3])]
  /\ pc' = [pc EXCEPT ![t] = "a_unlock"]
  /\ UNCHANGED <<total_used_, total_free_, mutex_, sys, sysStray, sysRefused, dtor, size, it,
                 block, calls, snap, live, nops>>
  /\ UNCHANGED <<unaligned, use_gpu, FLAGS_reallocate_gpu_memory_in_mb, realloc_size_, refill>>

\* Alloc returns: the lock_guard releases mutex_, the caller has the pointer;
\* owner is the thread that is to free it, NoThread when any thread may
AllocReturnTo(t, owner) ==
  /\ pc[t] = "a_unlock"
  /\ mutex_' = NoThread
  /\ live' = IF ret[t] = Null THEN live ELSE live \cup {<<ret[t], owner>>}
  /\ pc' = [pc EXCEPT ![t] = "idle"]
  /\ snap' = [snap EXCEPT ![t] = NoSnapshot]
  /\ it' = [it EXCEPT ![t] = PoolEnd]
  /\ size' = [size EXCEPT ![t] = 0]
  /\ ret' = [ret EXCEPT ![t] = Null]
  /\ calls' = [calls EXCEPT ![t] = <<>>]
  /\ unaligned' = [unaligned EXCEPT ![t] = 0]
  /\ UNCHANGED <<alloc_vars, sys, sysStray, sysRefused, dtor, block, nops>>
  /\ UNCHANGED <<use_gpu, FLAGS_reallocate_gpu_memory_in_mb, realloc_size_, refill>>

AllocReturn(t) == AllocReturnTo(t, NoThread)


\* a caller enters Free(p) with a pointer Alloc returned; block = p->metadata()
FreeCall(t, p) ==
  /\ dtor = "alive"
  /\ pc[t] = "idle"
  /\ nops < MaxOps
  /\ \E l \in live : l[1] = p
  /\ nops' = nops + 1
  /\ live' = {l \in live : l[1] # p}
  /\ block' = [block EXCEPT ![t] = Metadata(p)]
  /\ pc' = [pc EXCEPT ![t] = "f_lock"]
  /\ UNCHANGED <<alloc_vars, mutex_, sys, sysStray, sysRefused, dtor, size, it, ret, calls,
                 snap>>
  /\ UNCHANGED <<unaligned, use_gpu, FLAGS_reallocate_gpu_memory_in_mb, realloc_size_, refill>>

\* Free takes the lock
FreeLock(t) ==
  /\ pc[t] = "f_lock"
  /\ CanLock(t)
  /\ mutex_' = t
  /\ snap' = [snap EXCEPT ![t] = Snapshot]
  /\ pc' = [pc EXCEPT ![t] = "f_locked"]
  /\ UNCHANGED <<alloc_vars, sys, sysStray, sysRefused, dtor, size, it, block, ret, calls,
                 live, nops>>
  /\ UNCHANGED <<unaligned, use_gpu, FLAGS_reallocate_gpu_memory_in_mb, realloc_size_, refill>>

\* Free, the huge path: hand the chunk to the System Allocator, invalidate, return
FreeHuge(t) ==
  /\ pc[t] = "f_locked"
  /\ cache_[block[t]].type = HUGE_CHUNK
  /\ LET desc == cache_[block[t]]
     IN  /\ sys' = SysAfterFree(sys, block[t], HugeFreeBytes(desc), desc.index)
         /\ sysStray' = StrayAfterFree(sysStray, block[t], HugeFreeBytes(desc), desc.index)
  /\ cache_' = Invalidate(cache_, block[t])
  /\ pc' = [pc EXCEPT ![t] = "f_unlock"]
  /\ UNCHANGED <<pool_, total_used_, total_free_, mutex_, sysRefused, dtor, size, it, block,
                 ret, calls, snap, live, nops>>
  /\ UNCHANGED <<unaligned, use_gpu, FLAGS_reallocate_gpu_memory_in_mb, realloc_size_, refill>>

\* Free: mark_as_free, then total_used_ -= total_size; total_free_ += total_size
FreeMark(t) ==
  /\ pc[t] = "f_locked"
  /\ cache_[block[t]].type # HUGE_CHUNK
  /\ cache_' = MarkAsFree(cache_, block[t])
  /\ total_used_' = UsedAfterFree(total_used_, cache_[block[t]])
  /\ total_free_' = FreeAfterFree(total_free_, cache_[block[t]])
  /\ pc' = [pc EXCEPT ![t] = "f_right"]
  /\ UNCHANGED <<pool_, mutex_, sys, sysStray, sysRefused, dtor, size, it, block, ret, calls,
                 snap, live, nops>>
  /\ UNCHANGED <<unaligned, use_gpu, FLAGS_reallocate_gpu_memory_in_mb, realloc_size_, refill>>

\* Free: merge the right buddy into block when it is FREE
FreeRight(t) ==
  /\ pc[t] = "f_right"
  /\ LET right_buddy == RightBuddy(cache_, block[t])
     IN  IF MergesWith(cache_, block[t], right_buddy)
         THEN /\ pool_' = pool_ \ {IndexSizeAddress(cache_[right_buddy].index,
                                                    cache_[right_buddy].total_size,
                                                    right_buddy)}
              /\ cache_' = Merge(cache_, block[t], right_buddy)
         ELSE UNCHANGED <<pool_, cache_>>
  /\ pc' = [pc EXCEPT ![t] = "f_left"]
  /\ UNCHANGED <<total_used_, total_free_, mutex_, sys, sysStray, sysRefused, dtor, size, it,
                 block, ret, calls, snap, live, nops>>
  /\ UNCHANGED <<unaligned, use_gpu, FLAGS_reallocate_gpu_memory_in_mb, realloc_size_, refill>>

\* Free: merge block into its left buddy when that is FREE, then insert the
\* resulting block into the pool
FreeLeft(t) ==
  /\ pc[t] = "f_left"
  /\ LET left_buddy == LeftBuddy(cache_, block[t])
         merges == MergesWith(cache_, block[t], left_buddy)
         c == IF merges THEN Merge(cache_, left_buddy, block[t]) ELSE cache_
         b == IF merges THEN left_buddy ELSE block[t]
         erased == IF merges
                   THEN pool_ \ {IndexSizeAddress(cache_[left_buddy].index,
                                                  cache_[left_buddy].total_size, left_buddy)}
                   ELSE pool_
     IN  /\ cache_' = c
         /\ pool_' = erased \cup {IndexSizeAddress(c[b].index, c[b].total_size, b)}
  /\ pc' = [pc EXCEPT ![t] = "f_unlock"]
  /\ UNCHANGED <<total_used_, total_free_, mutex_, sys, sysStray, sysRefused, dtor, size, it,
                 block, ret, calls, snap, live, nops>>
  /\ UNCHANGED <<unaligned, use_gpu, FLAGS_reallocate_gpu_memory_in_mb, realloc_size_, refill>>

\* Free returns: the lock_guard releases mutex_
FreeReturn(t) ==
  /\ pc[t] = "f_unlock"
  /\ mutex_' = NoThread
  /\ pc' = [pc EXCEPT ![t] = "idle"]
  /\ snap' = [snap EXCEPT ![t] = NoSnapshot]
  /\ block' = [block EXCEPT ![t] = Null]
  /\ UNCHANGED <<alloc_vars, sys, sysStray, sysRefused, dtor, size, it, ret, calls, live,
                 nops>>
  /\ UNCHANGED <<unaligned, use_gpu, FLAGS_reallocate_gpu_memory_in_mb, realloc_size_, refill>>

\* ~BuddyAllocator is entered; no call of Alloc or Free is in progress
DtorEnter ==
  /\ dtor = "alive"
  /\ \A t \in Threads : pc[t] = "idle"
  /\ dtor' = "running"
  /\ UNCHANGED <<alloc_vars, mutex_, sys, sysStray, sysRefused, pc, size, it, block, ret,
                 calls, snap, live, nops>>
  /\ UNCHANGED <<unaligned, use_gpu, FLAGS_reallocate_gpu_memory_in_mb, realloc_size_, refill>>

\* mutant: the loop drops the pool entry and its descriptor without handing
\* the block to the System Allocator
DtorStep_NoSystemFree ==
  /\ dtor = "running"
  /\ pool_ # {}
  /\ cache_' = Invalidate(cache_, PoolBegin(pool_)[3])
  /\ pool_' = pool_ \ {PoolBegin(pool_)}
  /\ UNCHANGED <<total_used_, total_free_, mutex_, sys, sysStray, sysRefused, dtor, pc, size,
                 it, block, ret, calls, snap, live, nops>>
  /\ UNCHANGED <<unaligned, use_gpu, FLAGS_reallocate_gpu_memory_in_mb, realloc_size_, refill>>

\* ~BuddyAllocator, one turn of the loop: release pool_.begin()
DtorStep ==
  /\ dtor = "running"
  /\ pool_ # {}
  /\ LET b == PoolBegin(pool_)[3]
         desc == cache_[b]
     IN  /\ sys' = SysAfterFree(sys, b, desc.size, desc.index)
         /\ sysStray' = StrayAfterFree(sysStray, b, desc.size, desc.index)
         /\ cache_' = Invalidate(cache_, b)
         /\ pool_' = pool_ \ {PoolBegin(pool_)}
  /\ UNCHANGED <<total_used_, total_free_, mutex_, sysRefused, dtor, pc, size, it, block, ret,
                 calls, snap, live, nops>>
  /\ UNCHANGED <<unaligned, use_gpu, FLAGS_reallocate_gpu_memory_in_mb, realloc_size_, refill>>

\* ~BuddyAllocator leaves its loop
DtorExit ==
  /\ dtor = "running"
  /\ pool_ = {}
  /\ dtor' = "dead"
  /\ UNCHANGED <<alloc_vars, mutex_, sys, sysStray, sysRefused, pc, size, it, block, ret,
                 calls, snap, live, nops>>
  /\ UNCHANGED <<unaligned, use_gpu, FLAGS_reallocate_gpu_memory_in_mb, realloc_size_, refill>>

\* the pointers callers can pass to Free
Pointers == {Data(a) : a \in Addrs}

Next ==
  \/ \E t \in Threads, u \in Requests : AllocCall(t, u)
  \/ \E t \in Threads : AllocLock(t)
  \/ \E t \in Threads : AllocHuge(t)
  \/ \E t \in Threads : AllocFind(t)
  \/ \E t \in Threads : AllocRefill(t)
  \/ \E t \in Threads : AllocCount(t)
  \/ \E t \in Threads : AllocSplit(t)
  \/ \E t \in Threads : AllocReturn(t)
  \/ \E t \in Threads, p \in Pointers : FreeCall(t, p)
  \/ \E t \in Threads : FreeLock(t)
  \/ \E t \in Threads : FreeHuge(t)
  \/ \E t \in Threads : FreeMark(t)
  \/ \E t \in Threads : FreeRight(t)
  \/ \E t \in Threads : FreeLeft(t)
  \/ \E t \in Threads : FreeReturn(t)
  \/ DtorEnter
  \/ DtorStep
  \/ DtorExit

\* any thread calls Alloc and Free on any outstanding pointer; the allocator
\* is destroyed at some point when no call is in progress
Spec == Init /\ [][Next]_vars

\* a thread that pairs its calls: Alloc, then Free of the pointer it got
PairRequests == {u \in Requests : ~IsHuge(AllocSize(u))}
PairAllocCall(t, u) == Holds(t) = {} /\ AllocCall(t, u)
PairAllocReturn(t) == AllocReturnTo(t, t)
PairFreeCall(t, p) == p \in Holds(t) /\ FreeCall(t, p)

PairNext ==
  \/ \E t \in Threads, u \in PairRequests : PairAllocCall(t, u)
  \/ \E t \in Threads : AllocLock(t)
  \/ \E t \in Threads : AllocFind(t)
  \/ \E t \in Threads : AllocRefill(t)
  \/ \E t \in Threads : AllocCount(t)
  \/ \E t \in Threads : AllocSplit(t)
  \/ \E t \in Threads : PairAllocReturn(t)
  \/ \E t \in Threads, p \in Pointers : PairFreeCall(t, p)
  \/ \E t \in Threads : FreeLock(t)
  \/ \E t \in Threads : FreeMark(t)
  \/ \E t \in Threads : FreeRight(t)
  \/ \E t \in Threads : FreeLeft(t)
  \/ \E t \in Threads : FreeReturn(t)

\* two threads, each performing non-huge Alloc/Free pairs
PairSpec == Init /\ [][PairNext]_vars


\* ------------------------------------------------------------ claims

\* no call of Alloc or Free holds the mutex, and the allocator is not destroyed
AtRest == dtor = "alive" /\ mutex_ = NoThread

AllIdle == \A t \in Threads : pc[t] = "idle"

\* the slots whose region came from a successful RefillPool
RefillSlots == {k \in Slots : sys[k].via = "refill"}

RECURSIVE SumBytes(_)
SumBytes(S) ==
  IF S = {} THEN 0
  ELSE LET k == CHOOSE x \in S : TRUE IN sys[k].bytes + SumBytes(S \ {k})

\* the byte sizes of all regions obtained by successful RefillPool calls
RefilledBytes == SumBytes(RefillSlots)

\* the last System Allocator Alloc call of thread t's current call returned nullptr
LastCallRefused(t) == calls[t] # <<>> /\ calls[t][Len(calls[t])][2] = Null

\* some chunk of the pool is large enough for sz
Fits(pool, sz) == \E e \in pool : e[2] >= sz

\* C1: in every state, total_used_ + total_free_ (size_t addition) equals the
\* sum of the byte sizes of the regions obtained by successful RefillPool
\* calls; huge allocations, huge frees and failed refill add nothing.
C1_CountersSumToRefilled ==
  Add(total_used_, total_free_) = RefilledBytes % Modulus

\* C1 witness: a refilled region, a live huge region, a refused System
\* Allocator call and a non-zero total_used_ together
C1_Witness ==
  /\ dtor = "alive"
  /\ sysRefused
  /\ RefillSlots # {}
  /\ \E k \in Slots : sys[k].via = "huge" /\ sys[k].status = "live"
  /\ total_used_ # 0

\* C2: once every returned pointer has been freed and no call is in
\* progress, the pool holds exactly one entry per refilled region, with the
\* region's index, refill size and base address, and these are the only FREE
\* chunks.
C2_FullCoalescence ==
  (dtor = "alive" /\ AllIdle /\ live = {}) =>
    /\ pool_ = {IndexSizeAddress(sys[k].index, sys[k].bytes, Base(k)) : k \in RefillSlots}
    /\ \A a \in Addrs :
         IF \E k \in RefillSlots : a = Base(k)
         THEN cache_[a] = Desc(FREE_CHUNK, sys[SlotOf(a)].index, sys[SlotOf(a)].bytes,
                               Null, Null)
         ELSE cache_[a] = NoDesc

\* C2 witness: two Allocs served by one region (so the region was split) and
\* both pointers freed
C2_Witness ==
  /\ dtor = "alive" /\ AllIdle /\ live = {}
  /\ nops = 4
  /\ ~sysRefused
  /\ Cardinality(RefillSlots) = 1
  /\ \A k \in Slots \ RefillSlots : sys[k].status = "unused"

\* C3: when both threads have finished their Alloc/Free pairs, Used() is 0.
C3_UsedZeroAfterJoin ==
  (AllIdle /\ live = {}) => Used = 0

\* C4: whenever no Alloc or Free is in progress, a chunk has an entry in the
\* pool if and only if its descriptor is FREE_CHUNK (so no ARENA_CHUNK and no
\* HUGE_CHUNK is in the pool).
C4_PoolIffFree ==
  AtRest =>
    /\ \A e \in pool_ : e[3] \in Addrs
    /\ \A a \in Addrs : (\E e \in pool_ : e[3] = a) <=> cache_[a].type = FREE_CHUNK

\* C4 witness: at rest with a FREE, an ARENA and a HUGE chunk
C4_Witness ==
  /\ AtRest
  /\ pool_ # {}
  /\ \E a \in Addrs : cache_[a].type = ARENA_CHUNK
  /\ \E a \in Addrs : cache_[a].type = HUGE_CHUNK

\* C5: whenever no Alloc or Free is in progress, no FREE chunk has a FREE
\* right buddy (no two physically adjacent chunks of a region are both FREE).
C5_NoAdjacentFree ==
  AtRest =>
    \A a \in Addrs :
      (cache_[a].type = FREE_CHUNK /\ cache_[a].right_buddy # Null)
        => cache_[cache_[a].right_buddy].type # FREE_CHUNK

\* C5 witness: at rest after a Free next to an allocated chunk, and after a
\* split: a FREE chunk left of an ARENA chunk that is left of a FREE chunk
C5_Witness ==
  /\ AtRest
  /\ \E a \in Addrs :
       /\ cache_[a].type = FREE_CHUNK
       /\ cache_[a].right_buddy # Null
       /\ cache_[cache_[a].right_buddy].type = ARENA_CHUNK
       /\ cache_[cache_[a].right_buddy].right_buddy # Null
       /\ cache_[cache_[cache_[a].right_buddy].right_buddy].type = FREE_CHUNK

C8_HugeBypassesPool ==
  \A t \in Threads :
    (pc[t] = "a_unlock" /\ size[t] > MaxChunkSize) =>
      /\ Len(calls[t]) = 1
      /\ calls[t][1][1] = size[t]
      /\ pool_ = snap[t].pool
      /\ total_used_ = snap[t].used
      /\ total_free_ = snap[t].free
      /\ IF ret[t] = Null
         THEN calls[t][1][2] = Null /\ cache_ = snap[t].cache
         ELSE /\ Metadata(ret[t]) = calls[t][1][2]
              /\ cache_[Metadata(ret[t])].type = HUGE_CHUNK
              /\ cache_[Metadata(ret[t])].total_size = size[t]
              /\ \A a \in Addrs \ {Metadata(ret[t])} : cache_[a] = snap[t].cache[a]

\* C8 witness: a huge Alloc that succeeded while the pool holds chunks
C8_Witness ==
  \E t \in Threads :
    /\ pc[t] = "a_unlock" /\ size[t] > MaxChunkSize
    /\ ret[t] # Null
    /\ pool_ # {}
    /\ total_used_ # 0

\* C9: Free of a HUGE_CHUNK releases the chunk to the System Allocator once,
\* with the byte count and index it was allocated with, invalidates its cache
\* entry, merges nothing, and leaves the pool, total_used_ and total_free_ as
\* they were.
C9_HugeFreeReleasesOnce ==
  \A t \in Threads :
    (pc[t] = "f_unlock" /\ snap[t].cache[block[t]].type = HUGE_CHUNK) =>
      /\ IsBase(block[t])
      /\ sys[SlotOf(block[t])].status = "released"
      /\ sys[SlotOf(block[t])].rel =
           << <<sys[SlotOf(block[t])].bytes, sys[SlotOf(block[t])].index>> >>
      /\ cache_ = Invalidate(snap[t].cache, block[t])
      /\ pool_ = snap[t].pool
      /\ total_used_ = snap[t].used
      /\ total_free_ = snap[t].free

\* C9 witness: a huge chunk freed while the pool holds chunks
C9_Witness ==
  \E t \in Threads :
    /\ pc[t] = "f_unlock" /\ snap[t].cache[block[t]].type = HUGE_CHUNK
    /\ pool_ # {}
    /\ total_used_ # 0

\* the positions of Alloc and Free between taking and releasing mutex_
BodyPcs == {"a_locked", "a_refill", "a_count", "a_split", "a_unlock",
            "f_locked", "f_right", "f_left", "f_unlock"}

\* C10: a thread that is inside the part of Alloc or Free that reads or
\* writes the pool, the counters, the cache or a descriptor holds mutex_; so
\* at most one thread is there and the calls take effect one at a time.
C10_MutexGuardsBody ==
  \A t \in Threads : pc[t] \in BodyPcs => mutex_ = t

\* C10 witness: one thread in the middle of Alloc, the other waiting for the
\* mutex in Free
C10_Witness ==
  \E t, u \in Threads : pc[t] = "a_split" /\ pc[u] = "f_lock"

\* ------------------------------------------------ the order of Frees

\* the body of Free for a chunk that is not huge, applied to the state s of
\* the allocator: mark_as_free, the counters, the two merges, pool_.insert
FreeOf(s, b) ==
  LET desc == s.cache[b]
      c0 == MarkAsFree(s.cache, b)
      right_buddy == RightBuddy(c0, b)
      mr == MergesWith(c0, b, right_buddy)
      p1 == IF mr
            THEN s.pool \ {IndexSizeAddress(c0[right_buddy].index,
                                            c0[right_buddy].total_size, right_buddy)}
            ELSE s.pool
      c1 == IF mr THEN Merge(c0, b, right_buddy) ELSE c0
      left_buddy == LeftBuddy(c1, b)
      ml == MergesWith(c1, b, left_buddy)
      p2 == IF ml
            THEN p1 \ {IndexSizeAddress(c1[left_buddy].index,
                                        c1[left_buddy].total_size, left_buddy)}
            ELSE p1
      c2 == IF ml THEN Merge(c1, left_buddy, b) ELSE c1
      blk == IF ml THEN left_buddy ELSE b
  IN  [pool |-> p2 \cup {IndexSizeAddress(c2[blk].index, c2[blk].total_size, blk)},
       cache |-> c2,
       used |-> UsedAfterFree(s.used, desc),
       free |-> FreeAfterFree(s.free, desc)]

\* a and its right buddy are ARENA chunks
ArenaPair(cache, a) ==
  /\ cache[a].type = ARENA_CHUNK
  /\ cache[a].right_buddy # Null
  /\ cache[cache[a].right_buddy].type = ARENA_CHUNK

\* C13: for two physically adjacent ARENA chunks A and B of one region,
\* Free(A); Free(B) and Free(B); Free(A) lead to the same state: the same
\* merged FREE chunk (base, index, total_size) in the pool, the same other
\* pool entries, descriptors and counters. FreeOf is what a Free call does
\* between taking and releasing mutex_.
C13_FreeOrderIrrelevant ==
  /\ \A t \in Threads :
        (pc[t] = "f_unlock" /\ snap[t].cache[block[t]].type = ARENA_CHUNK) =>
          Snapshot = FreeOf(snap[t], block[t])
  /\ mutex_ = NoThread =>
        \A a \in Addrs :
          ArenaPair(cache_, a) =>
            LET b == cache_[a].right_buddy
            IN  FreeOf(FreeOf(Snapshot, a), b) = FreeOf(FreeOf(Snapshot, b), a)

\* no call is in progress, A and B are adjacent ARENA chunks with a FREE chunk
\* to the right of B, and freeing both leaves one chunk that spans all three
C13_Witness ==
  /\ mutex_ = NoThread
  /\ AllIdle
  /\ \E a \in Addrs :
        /\ ArenaPair(cache_, a)
        /\ LET b == cache_[a].right_buddy
               r == cache_[b].right_buddy
           IN  /\ r # Null
               /\ cache_[r].type = FREE_CHUNK
               /\ IndexSizeAddress(cache_[a].index,
                                   cache_[a].total_size + cache_[b].total_size
                                     + cache_[r].total_size, a)
                     \in FreeOf(FreeOf(Snapshot, b), a).pool

\* ------------------------------------------------------ destruction

\* the region of slot k was handed back once, with the index it came with
ReleasedOnce(k) ==
  /\ sys[k].status = "released"
  /\ Len(sys[k].rel) = 1
  /\ sys[k].rel[1][2] = sys[k].index

\* C14: every turn of the destructor's loop takes one entry out of the pool,
\* so the loop ends, and it ends with an empty pool; if every pointer Alloc
\* returned was freed before, then every region a successful RefillPool got
\* has been handed to the System Allocator exactly once, by its base address
\* and with its index, its descriptor is invalidated, nothing else was handed
\* over and no region is still held.
C14_DestructionReleasesAll ==
  /\ [](dtor = "dead" => pool_ = {})
  /\ []((dtor = "dead" /\ live = {}) =>
          /\ \A k \in RefillSlots : ReleasedOnce(k) /\ cache_[Base(k)] = NoDesc
          /\ \A k \in Slots : sys[k].status # "live"
          /\ sysStray = {})
  /\ [][dtor = "running" /\ dtor' = "running" =>
          /\ pool_' \subseteq pool_
          /\ Cardinality(pool_') = Cardinality(pool_) - 1]_vars

\* the allocator was destroyed after all pointers were freed, and it had
\* refilled its pool twice
C14_Witness ==
  /\ dtor = "dead"
  /\ live = {}
  /\ Cardinality(RefillSlots) = 2
  /\ \A k \in RefillSlots : ReleasedOnce(k)

\* ------------------------------------------------------- SplitToAlloc

\* thread t is past SplitToAlloc(it, size)
Served(t) == pc[t] = "a_unlock" /\ it[t] # PoolEnd

\* C16: when Alloc serves size s from the FREE chunk of total_size T, index i
\* and address b that it holds in it, the chunk becomes ARENA and keeps b and
\* i; if the residual is large enough to split, its total_size is exactly s,
\* and exactly one entry is inserted into the pool, <<i, T - s, b + s>>, whose
\* chunk is FREE; otherwise its total_size stays T and nothing is inserted.
\* The pool before SplitToAlloc is the pool at the lock plus the chunk of a
\* refill, if there was one.
C16_SplitServesExactly ==
  \A t \in Threads :
    Served(t) =>
      LET e == it[t]
          i == e[1]
          T == e[2]
          b == e[3]
          s == size[t]
          before == snap[t].pool \cup {e}
      IN  /\ ret[t] = Data(b)
          /\ cache_[b].type = ARENA_CHUNK
          /\ cache_[b].index = i
          /\ IF Splits(T, s)
             THEN /\ cache_[b].total_size = s
                  /\ cache_[b + s].type = FREE_CHUNK
                  /\ cache_[b + s].index = i
                  /\ cache_[b + s].total_size = T - s
                  /\ IndexSizeAddress(i, T - s, b + s) \notin before
                  /\ pool_ = (before \ {e}) \cup {IndexSizeAddress(i, T - s, b + s)}
             ELSE /\ cache_[b].total_size = T
                  /\ pool_ = before \ {e}

\* a chunk found in the pool was split, and the residual is in the pool
C16_Witness ==
  \E t \in Threads :
    /\ Served(t)
    /\ calls[t] = <<>>
    /\ cache_[it[t][3]].total_size = size[t]
    /\ it[t][2] > size[t]
    /\ IndexSizeAddress(it[t][1], it[t][2] - size[t], it[t][3] + size[t]) \in pool_

\* ------------------------------------------------ the life of a chunk

\* thread t takes a step from position from
StepsFrom(t, from) == pc[t] = from /\ pc'[t] # from

\* after the step, the chunk at a is part of a FREE chunk that starts below a
Absorbed(a) ==
  \E n \in Addrs :
    /\ n < a
    /\ cache_'[n].type = FREE_CHUNK
    /\ n + cache_'[n].total_size >= a + cache_[a].total_size

\* C18: a chunk that is not huge comes into being FREE, by a refill or as the
\* residual of a split; it goes from FREE to ARENA only in Alloc's
\* SplitToAlloc, and then it is the chunk Alloc serves; from ARENA to FREE only
\* in Free, and then it is the chunk being freed; it goes away only by being
\* merged into a FREE neighbour in Free or in the destructor. A HUGE chunk comes
\* into being HUGE in Alloc's huge path, never becomes FREE or ARENA, keeps its
\* descriptor (is never split or merged) and goes away only in Free of it.
C18_ChunkLifeCycle ==
  [][\A a \in Addrs :
       LET old == cache_[a].type
           new == cache_'[a].type
       IN  /\ (old = HUGE_CHUNK /\ new = HUGE_CHUNK) => cache_'[a] = cache_[a]
           /\ old # new =>
                 CASE old = NoDesc.type /\ new = FREE_CHUNK ->
                        \E t \in Threads : StepsFrom(t, "a_refill") \/ StepsFrom(t, "a_split")
                   [] old = NoDesc.type /\ new = HUGE_CHUNK ->
                        \E t \in Threads : StepsFrom(t, "a_locked") /\ IsHuge(size[t])
                   [] old = FREE_CHUNK /\ new = ARENA_CHUNK ->
                        \E t \in Threads : StepsFrom(t, "a_split") /\ it[t][3] = a
                   [] old = ARENA_CHUNK /\ new = FREE_CHUNK ->
                        \E t \in Threads : StepsFrom(t, "f_locked") /\ block[t] = a
                   [] old = FREE_CHUNK /\ new = NoDesc.type ->
                        \/ dtor = "running"
                        \/ /\ \E t \in Threads : StepsFrom(t, "f_right") \/ StepsFrom(t, "f_left")
                           /\ Absorbed(a)
                   [] old = HUGE_CHUNK /\ new = NoDesc.type ->
                        \E t \in Threads : StepsFrom(t, "f_locked") /\ block[t] = a
                   [] OTHER -> FALSE]_vars

\* a Free has merged the chunk it was given into its FREE left neighbour,
\* while a HUGE chunk is held
C18_Witness ==
  /\ \E t \in Threads :
        /\ pc[t] = "f_unlock"
        /\ snap[t].cache[block[t]].type = ARENA_CHUNK
        /\ cache_[block[t]] = NoDesc
  /\ \E a \in Addrs : cache_[a].type = HUGE_CHUNK

\* ------------------------------------- calls of the System Allocator

\* the step calls the System Allocator's Alloc or Free
SysCalled ==
  \/ sys' # sys
  \/ sysStray' # sysStray
  \/ \E t \in Threads : Len(calls'[t]) > Len(calls[t])

\* C20 as stated: every call of the System Allocator's Alloc or Free that the
\* allocator makes, the releases of the destructor included, is made while
\* mutex_ is held.
C20_SysCallsUnderMutex == [][SysCalled => mutex_ # NoThread]_vars

\* C20, amended: every call of the System Allocator that Alloc or Free makes
\* (huge allocation, refill, huge free) is made by the thread that holds
\* mutex_; the destructor makes its calls without taking mutex_, while no call
\* of Alloc or Free is in progress. So no two calls of the System Allocator
\* are in progress at a time.
C20_SysCallsByHolderOrDtor ==
  [][SysCalled =>
       IF dtor = "running"
       THEN mutex_ = NoThread /\ AllIdle
       ELSE /\ mutex_ \in Threads
            /\ mutex_' = mutex_
            /\ pc'[mutex_] # pc[mutex_]
            /\ \A t \in Threads \ {mutex_} : pc'[t] = pc[t]]_vars

\* the destructor has released a region and has more to release
C20_Witness ==
  /\ dtor = "running"
  /\ mutex_ = NoThread
  /\ pool_ # {}
  /\ \E k \in RefillSlots : sys[k].status = "released"

\* ------------------------------------------------ the layout of chunks

\* the addresses that hold the descriptor of a chunk
Chunks == {a \in Addrs : cache_[a].type \in {FREE_CHUNK, ARENA_CHUNK, HUGE_CHUNK}}

\* the chunks of the region of slot k
ChunksOf(k) == {a \in Chunks : SlotOf(a) = k}

\* the chunks at a and b share no byte
Disjoint(a, b) ==
  a + cache_[a].total_size <= b \/ b + cache_[b].total_size <= a

RECURSIVE SumTotalSize(_)
SumTotalSize(S) ==
  IF S = {} THEN 0
  ELSE LET a == CHOOSE x \in S : TRUE
       IN  cache_[a].total_size + SumTotalSize(S \ {a})

\* C21: while the allocator is alive, the chunks of every refilled region lie
\* inside the region, are pairwise disjoint and their total_size values add up
\* to the region's refill size, so they cover it exactly; the chunk of a live
\* allocation shares no byte with any other chunk, so its payload overlaps no
\* other payload and no descriptor; a pointer Alloc is about to return is held
\* by no caller, and every pointer a caller holds is that of an ARENA or HUGE
\* chunk.
C21_ChunksTileRegions ==
  /\ dtor = "alive" =>
        \A k \in RefillSlots :
          /\ \A a \in ChunksOf(k) :
                /\ cache_[a].type # HUGE_CHUNK
                /\ a + cache_[a].total_size <= Base(k) + sys[k].bytes
          /\ \A a, b \in ChunksOf(k) : a # b => Disjoint(a, b)
          /\ SumTotalSize(ChunksOf(k)) = sys[k].bytes
  /\ \A a, b \in Chunks :
        (a # b /\ cache_[a].type = ARENA_CHUNK) => Disjoint(a, b)
  /\ \A l \in live : cache_[Metadata(l[1])].type \in {ARENA_CHUNK, HUGE_CHUNK}
  /\ \A t \in Threads :
        (pc[t] = "a_unlock" /\ ret[t] # Null) =>
          /\ \A l \in live : l[1] # ret[t]
          /\ cache_[Metadata(ret[t])].type \in {ARENA_CHUNK, HUGE_CHUNK}

\* a region is cut into three chunks, two of them held by callers
C21_Witness ==
  /\ dtor = "alive"
  /\ \E k \in RefillSlots :
        /\ Cardinality(ChunksOf(k)) = 3
        /\ Cardinality({l \in live : SlotOf(Metadata(l[1])) = k}) = 2

\* ------------------------------------------- counters against chunks

RECURSIVE SumEntries(_)
SumEntries(S) ==
  IF S = {} THEN 0
  ELSE LET e == CHOOSE x \in S : TRUE
       IN  e[2] + SumEntries(S \ {e})

\* C22: whenever no Alloc or Free is in progress, total_used_ is the sum of
\* total_size over the ARENA chunks and total_free_ is the sum of total_size
\* over the entries of the pool; what Alloc adds to total_used_ is what Free
\* takes off later, also when the served chunk was not split, so that neither
\* counter wraps below zero.
C22_CountersMatchChunks ==
  AtRest =>
    /\ total_used_ = SumTotalSize({a \in Chunks : cache_[a].type = ARENA_CHUNK})
    /\ total_free_ = SumEntries(pool_)

\* ------------------------------------------ pool entries and descriptors

\* the key Free erases a FREE neighbour by
KeyOf(a) == IndexSizeAddress(cache_[a].index, cache_[a].total_size, a)

\* C23: every pool entry carries the index and total_size that the
\* descriptor of the chunk at its address records, and no address has two
\* entries; this holds in every state, so in particular whenever no Alloc or
\* Free is in progress. When Free is about to erase a FREE right or left
\* neighbour by its key, that key is an entry of the pool, and once Free is done
\* no entry is left for an address that holds no chunk.
C23_EntriesMatchDescriptors ==
  /\ \A e \in pool_ : e[3] \in Addrs /\ e = KeyOf(e[3])
  /\ \A e, f \in pool_ : e[3] = f[3] => e = f
  /\ \A t \in Threads :
        /\ (pc[t] = "f_right" /\ MergesWith(cache_, block[t], RightBuddy(cache_, block[t])))
              => KeyOf(RightBuddy(cache_, block[t])) \in pool_
        /\ (pc[t] = "f_left" /\ MergesWith(cache_, block[t], LeftBuddy(cache_, block[t])))
              => KeyOf(LeftBuddy(cache_, block[t])) \in pool_
        /\ pc[t] = "f_unlock" => \A e \in pool_ : cache_[e[3]].type = FREE_CHUNK

\* a Free has erased the entries of both neighbours of its chunk and put in
\* one entry for the merged chunk
C23_Witness ==
  \E t \in Threads :
    /\ pc[t] = "f_unlock"
    /\ Cardinality(snap[t].pool \ pool_) = 2
    /\ Cardinality(pool_ \ snap[t].pool) = 1

\* C25: every Free(ptr, bytes, index) that the allocator issues to the System
\* Allocator, from the huge path of Free and from the destructor alike, is for
\* a pointer that a System Allocator Alloc call returned, with the byte count
\* passed to that call and the index it produced.
C25_ReleasedWithObtainedBytes ==
  /\ sysStray = {}
  /\ \A k \in Slots :
        \A j \in 1 .. Len(sys[k].rel) :
          sys[k].rel[j] = <<sys[k].bytes, sys[k].index>>

\* ------------------------------------------- FindExistChunk on any pool

\* the region indices, chunk sizes and addresses of the pools drawn
FindIndices == 0 .. NumSlots
FindSizes == {k * MinChunkSize : k \in 1 .. (MaxChunkSize \div MinChunkSize)}
FindAddrs == {Base(1) + k * MinChunkSize : k \in 0 .. 2}

\* the pool that has, at every address a of A, a chunk of index f[a][1] and
\* total_size f[a][2]
FindPool(A, f) == {IndexSizeAddress(f[a][1], f[a][2], a) : a \in A}

\* the descriptors of the chunks of a pool
FindCache(pool) ==
  [a \in Addrs |->
     IF \E e \in pool : e[3] = a
     THEN LET e == CHOOSE e \in pool : e[3] = a
          IN  Desc(FREE_CHUNK, e[1], e[2], Null, Null)
     ELSE NoDesc]

\* thread 1 is in Alloc, holds mutex_ and is about to call
\* FindExistChunk(size) on a pool of any content
FindInit ==
  \E A \in SUBSET FindAddrs, sz \in FindSizes :
  \E f \in [A -> FindIndices \X FindSizes] :
  LET pool == FindPool(A, f) IN
    /\ pool_ = pool
    /\ cache_ = FindCache(pool)
    /\ size = [t \in Threads |-> IF t = 1 THEN sz ELSE 0]
    /\ unaligned = [t \in Threads |-> IF t = 1 THEN sz - DescSize ELSE 0]
    /\ pc = [t \in Threads |-> IF t = 1 THEN "a_locked" ELSE "idle"]
    /\ mutex_ = 1
    /\ snap = [t \in Threads |->
                IF t = 1
                THEN [pool |-> pool, cache |-> FindCache(pool), used |-> 0, free |-> 0]
                ELSE NoSnapshot]
    /\ total_used_ = 0
    /\ total_free_ = 0
    /\ use_gpu = FALSE
    /\ FLAGS_reallocate_gpu_memory_in_mb = 0
    /\ realloc_size_ = 0
    /\ refill = NoRefill
    /\ sys = [k \in Slots |-> NoRegion]
    /\ sysStray = {}
    /\ sysRefused = FALSE
    /\ dtor = "alive"
    /\ it = [t \in Threads |-> PoolEnd]
    /\ block = [t \in Threads |-> Null]
    /\ ret = [t \in Threads |-> Null]
    /\ calls = [t \in Threads |-> <<>>]
    /\ live = {}
    /\ nops = 1

FindNext == \E t \in Threads : AllocFind(t)

FindSpec == FindInit /\ [][FindNext]_vars

\* the entries of the pool that are large enough for sz
Fitting(pool, sz) == {e \in pool : e[2] >= sz}

\* thread t is past FindExistChunk and has not refilled the pool
Found(t) == pc[t] \in {"a_refill", "a_count"} /\ calls[t] = <<>>

\* C11: for every pool and every size, FindExistChunk returns the entry that
\* is least in (index, total_size, address) order among the entries whose
\* total_size is at least size, and pool_.end() exactly when there is no such
\* entry; so Alloc goes on to refill only when no chunk of any region fits.
C11_FindLeastFitting ==
  \A t \in Threads :
    Found(t) =>
      LET fits == Fitting(pool_, size[t])
      IN  /\ (it[t] = PoolEnd) <=> (fits = {})
          /\ (pc[t] = "a_refill") <=> (fits = {})
          /\ fits # {} =>
                /\ it[t] \in fits
                /\ \A e \in fits : e = it[t] \/ TupleLess(it[t], e)

\* FindExistChunk passed over a region whose chunks are all too small and
\* returned a chunk that is not the only one that fits
C11_Witness ==
  \E t \in Threads :
    /\ Found(t)
    /\ pc[t] = "a_count"
    /\ \E e \in pool_ : e[1] < it[t][1] /\ e[1] > 0
    /\ \E e \in Fitting(pool_, size[t]) : e # it[t] /\ e[1] = it[t][1]

\* C19: the loop of FindExistChunk returns for every pool and size: every
\* retry moves index up to the index of an entry of the pool, so the loop
\* takes at most one turn more than the pool has distinct region indices, and
\* it returns what FindExistChunk returns.
C19_FindTerminates ==
  \A t \in Threads :
    Found(t) =>
      LET r == FindTurns(pool_, 0, size[t], Cardinality(pool_) + 2)
          n == Len(r.indices)
          regions == {e[1] : e \in pool_}
      IN  /\ r.done
          /\ r.it = it[t]
          /\ n <= Cardinality(regions) + 1
          /\ \A k \in 2 .. n :
                r.indices[k] > r.indices[k - 1] /\ r.indices[k] \in regions

\* the loop took three turns
C19_Witness ==
  \E t \in Threads :
    /\ Found(t)
    /\ Len(FindTurns(pool_, 0, size[t], Cardinality(pool_) + 2).indices) >= 3

\* ------------------------------------------- Alloc of any small size

\* every unaligned_size up to the first whose chunk is larger than
\* max_chunk_size_
AlignRequests == 0 .. MaxChunkSize

\* one caller
AlignThreads == {1}

AlignNext ==
  \/ \E t \in AlignThreads, u \in AlignRequests : AllocCall(t, u)
  \/ \E t \in AlignThreads : AllocLock(t)
  \/ \E t \in AlignThreads : AllocHuge(t)
  \/ \E t \in AlignThreads : AllocFind(t)
  \/ \E t \in AlignThreads : AllocRefill(t)
  \/ \E t \in AlignThreads : AllocCount(t)
  \/ \E t \in AlignThreads : AllocSplit(t)
  \/ \E t \in AlignThreads : AllocReturn(t)

\* Alloc calls of every size in AlignRequests, and no Free
AlignSpec == Init /\ [][AlignNext]_vars

AllocPcs == {"a_lock", "a_locked", "a_refill", "a_count", "a_split", "a_unlock"}

\* C12: for every request whose unaligned_size + sizeof(Desc), rounded up,
\* is within size_t (here: every unaligned_size up to max_chunk_size_), the
\* size Alloc works with is the least multiple of min_chunk_size_ that is at
\* least unaligned_size + sizeof(Desc); so Alloc(0) is served by a chunk of
\* at least one min_chunk_size_ unit, and every Alloc by one of at least size.
C12_SizeIsLeastMultiple ==
  \A t \in Threads :
    pc[t] \in AllocPcs =>
      /\ size[t] % MinChunkSize = 0
      /\ size[t] >= unaligned[t] + DescSize
      /\ size[t] - MinChunkSize < unaligned[t] + DescSize
      /\ (pc[t] = "a_unlock" /\ ret[t] # Null) =>
            /\ cache_[Metadata(ret[t])].total_size >= size[t]
            /\ cache_[Metadata(ret[t])].total_size >= MinChunkSize

\* Alloc(0) returned a chunk of one unit, after an Alloc whose size with the
\* descriptor was a multiple of min_chunk_size_ already and was served too
C12_Witness ==
  \E t \in Threads :
    /\ pc[t] = "a_unlock" /\ unaligned[t] = 0 /\ ret[t] # Null
    /\ size[t] = MinChunkSize
    /\ \E l \in live : cache_[Metadata(l[1])].type = ARENA_CHUNK

\* --------------------------------- Alloc of sizes near the end of size_t

\* every unaligned_size for which unaligned_size + sizeof(Desc), rounded up
\* to min_chunk_size_, is not within size_t
WrapRequests == (Modulus - MinChunkSize - DescSize + 1) .. (Modulus - 1)

WrapNext ==
  \/ \E t \in AlignThreads, u \in WrapRequests \cup Requests : AllocCall(t, u)
  \/ \E t \in AlignThreads : AllocLock(t)
  \/ \E t \in AlignThreads : AllocHuge(t)
  \/ \E t \in AlignThreads : AllocFind(t)
  \/ \E t \in AlignThreads : AllocRefill(t)
  \/ \E t \in AlignThreads : AllocCount(t)
  \/ \E t \in AlignThreads : AllocSplit(t)
  \/ \E t \in AlignThreads : AllocReturn(t)

\* Alloc calls of the usual sizes and of the largest sizes, and no Free
WrapSpec == Init /\ [][WrapNext]_vars

\* C24: for every unaligned_size of size_t, the chunk behind a non-null
\* pointer that Alloc(unaligned_size) returns has a payload, total_size minus
\* sizeof(Desc), of at least unaligned_size bytes; a request whose size
\* computation wraps is not served by a smaller chunk.
C24_PayloadCoversRequest ==
  \A t \in Threads :
    (pc[t] = "a_unlock" /\ ret[t] # Null) =>
      cache_[Metadata(ret[t])].total_size - DescSize >= unaligned[t]

\* ------------------------------------------------- device memory

\* two threads on an allocator of device memory, each performing non-huge
\* Alloc/Free pairs
GpuSpec == GpuInit /\ [][PairNext]_vars

\* thread t takes the step that runs RefillPool
RefillStep(t) == pc[t] = "a_refill" /\ pc'[t] # "a_refill"

\* ... on device memory, and not for the first time
ReRefillStep(t) == RefillStep(t) /\ use_gpu /\ ~FirstRefill

C17_TotalSizeAligned ==
  \A a \in Addrs :
    cache_[a].type \in {FREE_CHUNK, ARENA_CHUNK, HUGE_CHUNK} =>
      cache_[a].total_size % MinChunkSize = 0

====
